---------------------------- MODULE Spec2Model ----------------------------
(***************************************************************************)
(* Model of the compaction scheduler of                                    *)
(* src/src/meta/src/hummock/compaction_scheduler.rs:                       *)
(* CompactionRequestChannel (try_send / unschedule) and                    *)
(* CompactionScheduler (start / pick_and_assign / shutdown_sender).        *)
(*                                                                         *)
(* Threads are the producers that call try_send and the callers of         *)
(* start(); a caller of start() that wins the receivers runs the           *)
(* 'compaction_trigger loop.  Every step below is one atomic effect of    *)
(* the code: a step that takes a mutex and releases it again without       *)
(* touching anything else in between is one action, a critical section     *)
(* that touches the request channel (which is not protected by the         *)
(* `scheduled` mutex) is split at that point.                              *)
(***************************************************************************)
EXTENDS Naturals, Integers, Sequences, FiniteSets, TLC

\* ---------------------------------------------------------------- bounds
NumGroups == 2
NumProducers == 1
NumStarters == 2
NumCompactors == 1
NumTasks == 1
MaxShutdownSignals == 1

Groups == 1..NumGroups
Producers == 1..NumProducers
Starters == (NumProducers + 1)..(NumProducers + NumStarters)
Threads == Producers \cup Starters
Compactors == 1..NumCompactors
Tasks == 1..NumTasks
NoThread == 0
NoGroup == 0
NoTask == 0
NoCompactor == 0

\* ----------------------------------------------------------------- state
VARIABLES
    scheduled,        \* CompactionRequestChannel.scheduled (HashSet)
    scheduled_lock,   \* holder of the `scheduled` mutex, or NoThread
    buffer,           \* messages queued in the request mpsc channel
    request_rx,       \* CompactionRequestChannel.request_rx: "Some" | "None"
    shutdown_rx,      \* CompactionScheduler.shutdown_rx: "Some" | "None"
    request_rx_lock,  \* holder of the request_rx mutex, or NoThread
    shutdown_rx_lock, \* holder of the shutdown_rx mutex, or NoThread
    taken,            \* per start() call: which receivers its take() returned
    request_closed,   \* the request receiver has been dropped
    shutdown_closed,  \* the shutdown receiver has been dropped
    shutdown_queue,   \* number of () messages queued in the shutdown channel
    pc,               \* per start() caller: position inside start()
    compaction_group, \* per start() caller: local `compaction_group`
    compact_task,     \* per start() caller: local `compact_task`
    compactor,        \* per start() caller: local `compactor`
    ts_pc,            \* per thread: position inside try_send
    ts_group,         \* per thread: argument of the try_send in progress
    ts_ret,           \* what the try_send call that returned last returned
    registry,         \* compactors known to the compactor manager
    registered,       \* set_compaction_scheduler has been called
    entered,          \* start() calls that entered the loop so far
    older,            \* <<g, h>>: g's queued signal was sent before h's
    work,             \* what the loop did for the signal it received last
    fatal             \* compactors whose assign returned a fatal error

chanVars == <<scheduled, scheduled_lock, buffer, request_closed>>
rxVars == <<request_rx, shutdown_rx, request_rx_lock, shutdown_rx_lock, taken>>
loopVars == <<pc, compaction_group, compact_task, compactor>>
tsVars == <<ts_pc, ts_group, ts_ret>>
workVars == <<work, fatal>>
histVars == <<entered, older, work, fatal>>
vars == <<scheduled, scheduled_lock, buffer, request_rx, shutdown_rx,
          request_rx_lock, shutdown_rx_lock, taken, request_closed,
          shutdown_closed, shutdown_queue, pc, compaction_group,
          compact_task, compactor, ts_pc, ts_group, ts_ret, registry,
          registered, entered, older, work, fatal>>

\* ------------------------------------------------------------- helpers
Range(s) == {s[i] : i \in DOMAIN s}

\* the number of signals for group g queued in the request channel
RECURSIVE CountIn(_, _)
CountIn(s, g) ==
    IF s = <<>> THEN 0
    ELSE (IF Head(s) = g THEN 1 ELSE 0) + CountIn(Tail(s), g)

\* positions of start() at which the caller owns both receivers and runs
\* the 'compaction_trigger loop
LoopPcs == {"select", "unschedule", "get_task", "next_compactor", "sleep",
            "assign", "remove", "resched"}
\* positions between unschedule(G) and the end of G's assignment
AssignPcs == {"get_task", "next_compactor", "sleep", "assign", "remove"}

Running(s) == pc[s] \in LoopPcs \cup {"register"}
LoopRunning == \E s \in Starters : pc[s] \in LoopPcs

\* nothing has been done yet for the signal received last
WorkNone == [fetch |-> "none", fetches |-> 0, acted |-> FALSE,
             failed |-> FALSE, oks |-> 0, resends |-> 0, unpaced |-> FALSE]

Init ==
    /\ scheduled = {}
    /\ scheduled_lock = NoThread
    /\ buffer = <<>>
    /\ request_rx = "Some"
    /\ shutdown_rx = "Some"
    /\ request_rx_lock = NoThread
    /\ shutdown_rx_lock = NoThread
    /\ taken = [s \in Starters |-> {}]
    /\ request_closed = FALSE
    /\ shutdown_closed = FALSE
    /\ shutdown_queue = 0
    /\ pc = [s \in Starters |-> "idle"]
    /\ compaction_group = [s \in Starters |-> NoGroup]
    /\ compact_task = [s \in Starters |-> NoTask]
    /\ compactor = [s \in Starters |-> NoCompactor]
    /\ ts_pc = [t \in Threads |-> "idle"]
    /\ ts_group = [t \in Threads |-> NoGroup]
    /\ ts_ret = "none"
    /\ registry = Compactors
    /\ registered = FALSE
    /\ entered = 0
    /\ older = {}
    /\ work = WorkNone
    /\ fatal = {}

\* ------------------------------------------------ CompactionRequestChannel
\* try_send without the duplicate test
IsScheduled_Never(g) == FALSE

\* line 54: guard.get(&compaction_group).is_some()
IsScheduled(g) == g \in scheduled

\* a send whose failure is not noticed
SendOk_Always == TRUE

\* line 57: request_tx.send(..).is_ok(): an unbounded send fails only when
\* the receiver has been dropped
SendOk == ~request_closed

\* a channel that queues the message in front of the others
Enqueue_Front(q, g) == <<g>> \o q

\* line 57: the unbounded channel queues the message behind the others
Enqueue(q, g) == Append(q, g)

\* line 117: recv() hands out the oldest queued message
Dequeue(q) == <<Head(q), Tail(q)>>

\* try_send, lines 53-57 and 61: take the `scheduled` mutex, test
\* membership, send.  Returns false on a duplicate or a failed send;
\* otherwise keeps the mutex and goes on to the insert.
TrySendBegin(t, g) ==
    /\ ts_pc[t] = "idle"
    /\ scheduled_lock = NoThread
    /\ IF IsScheduled(g) \/ ~SendOk
       THEN /\ ts_ret' = "false"
            /\ UNCHANGED <<buffer, scheduled_lock, ts_pc, ts_group, older>>
       ELSE /\ buffer' = Enqueue(buffer, g)
            /\ ts_group' = [ts_group EXCEPT ![t] = g]
            /\ scheduled_lock' = t
            /\ ts_pc' = [ts_pc EXCEPT ![t] = "insert"]
            /\ older' = older \cup {<<h, g>> : h \in Range(buffer) \ {g}}
            /\ UNCHANGED ts_ret
    /\ UNCHANGED <<scheduled, request_closed>>

\* try_send, lines 58-59: insert, return true, release the mutex
TrySendEnd(t) ==
    /\ ts_pc[t] = "insert"
    /\ scheduled_lock = t
    /\ scheduled' = scheduled \cup {ts_group[t]}
    /\ scheduled_lock' = NoThread
    /\ ts_pc' = [ts_pc EXCEPT ![t] = "idle"]
    /\ ts_group' = [ts_group EXCEPT ![t] = NoGroup]
    /\ ts_ret' = "true"
    /\ UNCHANGED <<buffer, request_closed, older>>

\* a producer calls try_send(g)
ProducerTrySend(p, g) ==
    /\ TrySendBegin(p, g)
    /\ UNCHANGED <<rxVars, loopVars, shutdown_closed, shutdown_queue,
                   registry, registered, entered, workVars>>

ProducerTrySendInsert(p) ==
    /\ TrySendEnd(p)
    /\ UNCHANGED <<rxVars, loopVars, shutdown_closed, shutdown_queue,
                   registry, registered, entered, workVars>>

\* an unschedule that leaves the group marked, as when it only happens
\* after the assignment
Unscheduled_Late(set, g) == set

\* line 65: scheduled.remove(&compaction_group)
Unscheduled(set, g) == set \ {g}

\* unschedule, lines 64-66
Unschedule(s) ==
    /\ pc[s] = "unschedule"
    /\ scheduled_lock = NoThread
    /\ scheduled' = Unscheduled(scheduled, compaction_group[s])
    /\ pc' = [pc EXCEPT ![s] = "get_task"]
    /\ UNCHANGED <<scheduled_lock, buffer, request_closed, rxVars,
                   compaction_group, compact_task, compactor, tsVars,
                   shutdown_closed, shutdown_queue, registry, registered,
                   histVars>>

\* ----------------------------------------------------- shutdown_sender
\* lines 213-215: any holder of the sender may send (); the send fails
\* without effect once the receiver has been dropped
Shutdown ==
    /\ ~shutdown_closed
    /\ shutdown_queue < MaxShutdownSignals
    /\ shutdown_queue' = shutdown_queue + 1
    /\ UNCHANGED <<chanVars, rxVars, loopVars, tsVars, shutdown_closed,
                   registry, registered, histVars>>

\* ---------------------------------------------------------------- start
\* a guard that is dropped as soon as take() has returned
HeldAfterTake_Dropped(s) == NoThread

\* lines 102-104: the MutexGuard created in the match scrutinee is a
\* temporary of the whole `let` statement, so the caller still holds the
\* mutex after take() returned
HeldAfterTake(s) == s

\* a take() that leaves the receiver in place
AfterTake_Kept == "Some"

\* lines 103-104: Option::take() leaves None behind
AfterTake == "None"

\* Callers of start() are interchangeable, so a new call is made by the
\* lowest caller that is not inside start(): this leaves out only
\* behaviours that differ from a kept one by renaming callers.
NextCaller(s) == \A r \in Starters : r < s => pc[r] # "idle"

\* line 103: self.shutdown_rx.lock().take()
StartTakeShutdown(s) ==
    /\ pc[s] = "idle"
    /\ NextCaller(s)
    /\ shutdown_rx_lock = NoThread
    /\ shutdown_rx_lock' = HeldAfterTake(s)
    /\ taken' = [taken EXCEPT ![s] =
                    IF shutdown_rx = "Some" THEN {"shutdown"} ELSE {}]
    /\ shutdown_rx' = AfterTake
    /\ pc' = [pc EXCEPT ![s] = "take_request"]
    /\ UNCHANGED <<chanVars, request_rx, request_rx_lock, compaction_group,
                   compact_task, compactor, tsVars, shutdown_closed,
                   shutdown_queue, registry, registered, histVars>>

\* line 104: self.request_channel.request_rx.lock().take()
StartTakeRequest(s) ==
    /\ pc[s] = "take_request"
    /\ request_rx_lock = NoThread
    /\ request_rx_lock' = HeldAfterTake(s)
    /\ taken' = [taken EXCEPT ![s] =
                    IF request_rx = "Some" THEN @ \cup {"request"} ELSE @]
    /\ request_rx' = AfterTake
    /\ pc' = [pc EXCEPT ![s] = "match"]
    /\ UNCHANGED <<chanVars, shutdown_rx, shutdown_rx_lock, compaction_group,
                   compact_task, compactor, tsVars, shutdown_closed,
                   shutdown_queue, registry, registered, histVars>>

Release(lock, s) == IF lock = s THEN NoThread ELSE lock

\* lines 106, 111: both receivers were there; the guards are released at
\* the end of the let statement
StartMatchBoth(s) ==
    /\ pc[s] = "match"
    /\ taken[s] = {"shutdown", "request"}
    /\ shutdown_rx_lock' = Release(shutdown_rx_lock, s)
    /\ request_rx_lock' = Release(request_rx_lock, s)
    /\ pc' = [pc EXCEPT ![s] = "register"]
    /\ entered' = entered + 1
    /\ UNCHANGED <<chanVars, request_rx, shutdown_rx, taken,
                   compaction_group, compact_task, compactor, tsVars,
                   shutdown_closed, shutdown_queue, registry, registered,
                   older, workVars>>

\* lines 107-110: warn and return; a receiver this call did take is
\* dropped with the tuple, which closes its channel and frees what is
\* queued in it
StartMatchOther(s) ==
    /\ pc[s] = "match"
    /\ taken[s] # {"shutdown", "request"}
    /\ shutdown_rx_lock' = Release(shutdown_rx_lock, s)
    /\ request_rx_lock' = Release(request_rx_lock, s)
    /\ pc' = [pc EXCEPT ![s] = "idle"]
    /\ taken' = [taken EXCEPT ![s] = {}]
    /\ IF "request" \in taken[s]
       THEN request_closed' = TRUE /\ buffer' = <<>> /\ older' = {}
       ELSE UNCHANGED <<request_closed, buffer, older>>
    /\ IF "shutdown" \in taken[s]
       THEN shutdown_closed' = TRUE /\ shutdown_queue' = 0
       ELSE UNCHANGED <<shutdown_closed, shutdown_queue>>
    /\ UNCHANGED <<scheduled, scheduled_lock, request_rx, shutdown_rx,
                   compaction_group, compact_task, compactor, tsVars,
                   registry, registered, entered, workVars>>

\* a start() that goes into the loop without registering
Register_Skipped(s) ==
    /\ pc[s] = "register"
    /\ pc' = [pc EXCEPT ![s] = "select"]
    /\ UNCHANGED <<chanVars, rxVars, compaction_group, compact_task,
                   compactor, tsVars, shutdown_closed, shutdown_queue,
                   registry, registered, histVars>>

\* lines 112-113: hummock_manager.set_compaction_scheduler(..)
Register(s) ==
    /\ pc[s] = "register"
    /\ registered' = TRUE
    /\ pc' = [pc EXCEPT ![s] = "select"]
    /\ UNCHANGED <<chanVars, rxVars, compaction_group, compact_task,
                   compactor, tsVars, shutdown_closed, shutdown_queue,
                   registry, histVars>>

\* ------------------------------------------- start: 'compaction_trigger
\* line 116: tokio::select! without `biased` polls its branches in random
\* order, so each branch that is ready may be the one that completes.
\* request_tx and shutdown_tx are fields of the scheduler that start()
\* borrows, so neither recv() can report a closed channel while the loop
\* runs.
\* a select that polls the request branch first and completes with it
\* whenever it is ready
SelectReady_Biased ==
    IF buffer # <<>> THEN {"request"}
    ELSE IF shutdown_queue > 0 THEN {"shutdown"} ELSE {}

SelectReady ==
    (IF buffer # <<>> THEN {"request"} ELSE {}) \cup
    (IF shutdown_queue > 0 THEN {"shutdown"} ELSE {})

\* lines 117-119: the request branch completes with Some(compaction_group)
RecvRequest(s) ==
    /\ pc[s] = "select"
    /\ "request" \in SelectReady
    /\ compaction_group' = [compaction_group EXCEPT ![s] = Dequeue(buffer)[1]]
    /\ buffer' = Dequeue(buffer)[2]
    /\ older' = {e \in older : e[1] # Dequeue(buffer)[1]
                                /\ e[2] # Dequeue(buffer)[1]}
    /\ pc' = [pc EXCEPT ![s] = "unschedule"]
    /\ work' = WorkNone
    /\ UNCHANGED <<scheduled, scheduled_lock, request_closed, rxVars,
                   compact_task, compactor, tsVars, shutdown_closed,
                   shutdown_queue, registry, registered, entered, fatal>>

\* lines 126-128: the shutdown branch completes; break 'compaction_trigger
RecvShutdown(s) ==
    /\ pc[s] = "select"
    /\ "shutdown" \in SelectReady
    /\ shutdown_queue' = shutdown_queue - 1
    /\ pc' = [pc EXCEPT ![s] = "exit"]
    /\ UNCHANGED <<chanVars, rxVars, compaction_group, compact_task,
                   compactor, tsVars, shutdown_closed, registry, registered,
                   histVars>>

\* lines 133-134: start() returns; its locals shutdown_rx and request_rx
\* are dropped, which closes both channels and frees what is queued
Exit(s) ==
    /\ pc[s] = "exit"
    /\ pc' = [pc EXCEPT ![s] = "idle"]
    /\ taken' = [taken EXCEPT ![s] = {}]
    /\ request_closed' = TRUE
    /\ buffer' = <<>>
    /\ older' = {}
    /\ shutdown_closed' = TRUE
    /\ shutdown_queue' = 0
    /\ UNCHANGED <<scheduled, scheduled_lock, request_rx, shutdown_rx,
                   request_rx_lock, shutdown_rx_lock, compaction_group,
                   compact_task, compactor, tsVars, registry, registered,
                   entered, workVars>>

\* ------------------------------------------------------ pick_and_assign
\* A local of the loop body is NoGroup / NoTask / NoCompactor whenever it
\* is out of scope.
\* lines 139-149: get_compact_task() gives a task, nothing, or an error
GetCompactTask(s, t) ==
    /\ pc[s] = "get_task"
    /\ compact_task' = [compact_task EXCEPT ![s] = t]
    /\ pc' = [pc EXCEPT ![s] = "next_compactor"]
    /\ work' = [work EXCEPT !.fetch = "task", !.fetches = @ + 1]
    /\ UNCHANGED <<chanVars, rxVars, compaction_group, compactor, tsVars,
                   shutdown_closed, shutdown_queue, registry, registered,
                   entered, older, fatal>>

\* a fetch error that ends the loop
AfterFetchNothing_Exit(r) == IF r = "error" THEN "exit" ELSE "select"

\* a fetch without a task that goes on to the assignment
AfterFetchNothing_Assign(r) == "next_compactor"

\* lines 143 and 147: `return` from pick_and_assign, back to the select
AfterFetchNothing(r) == "select"

\* lines 141-148: Ok(None) and Err(_) both return from pick_and_assign
GetCompactTaskNothing(s, r) ==
    /\ pc[s] = "get_task"
    /\ r \in {"empty", "error"}
    /\ pc' = [pc EXCEPT ![s] = AfterFetchNothing(r)]
    /\ compaction_group' =
          [compaction_group EXCEPT ![s] =
              IF AfterFetchNothing(r) = "next_compactor" THEN @ ELSE NoGroup]
    /\ work' = [work EXCEPT !.fetch = r, !.fetches = @ + 1]
    /\ UNCHANGED <<chanVars, rxVars, compact_task, compactor, tsVars,
                   shutdown_closed, shutdown_queue, registry, registered,
                   entered, older, fatal>>

\* lines 158-165: next_compactor() gives one of the registered compactors
NextCompactor(s, c) ==
    /\ pc[s] = "next_compactor"
    /\ c \in registry
    /\ compactor' = [compactor EXCEPT ![s] = c]
    /\ pc' = [pc EXCEPT ![s] = "assign"]
    /\ work' = [work EXCEPT !.acted = TRUE, !.unpaced = TRUE]
    /\ UNCHANGED <<chanVars, rxVars, compaction_group, compact_task, tsVars,
                   shutdown_closed, shutdown_queue, registry, registered,
                   entered, older, fatal>>

\* a retry that goes straight back to the selection
AfterNoCompactor_Spin == "next_compactor"

\* an empty registry that makes pick_and_assign give the task up
AfterNoCompactor_Return == "select"

\* line 161: tokio::time::sleep(Duration::from_secs(60)).await
AfterNoCompactor == "sleep"

\* lines 159-161: no compactor is registered; start the 60 s sleep
NextCompactorNone(s) ==
    /\ pc[s] = "next_compactor"
    /\ registry = {}
    /\ pc' = [pc EXCEPT ![s] = AfterNoCompactor]
    /\ work' = [work EXCEPT !.acted = TRUE, !.unpaced = TRUE]
    /\ UNCHANGED <<chanVars, rxVars, compaction_group, compact_task,
                   compactor, tsVars, shutdown_closed, shutdown_queue,
                   registry, registered, entered, older, fatal>>

\* lines 161-162: the sleep is over; continue 'send_task
Sleep(s) ==
    /\ pc[s] = "sleep"
    /\ pc' = [pc EXCEPT ![s] = "next_compactor"]
    /\ work' = [work EXCEPT !.unpaced = FALSE]
    /\ UNCHANGED <<chanVars, rxVars, compaction_group, compact_task,
                   compactor, tsVars, shutdown_closed, shutdown_queue,
                   registry, registered, entered, older, fatal>>

AssignErrors == {"InvalidContext", "CompactorUnreachable", "Other"}

\* a classification that takes every error for a fatal one
IsFatal_Every(err) == TRUE

\* line 201: the errors that make the loop forget the compactor
IsFatal(err) == err \in {"InvalidContext", "CompactorUnreachable"}

\* a success after which the retry loop goes round again
AfterAssignOk_Again == "next_compactor"

\* a success that returns without rescheduling the group
AfterAssignOk_Return == "select"

\* lines 184-192: Ok(_) reschedules the group and breaks 'send_task
AfterAssignOk == "resched"

\* lines 179-184: assign_compaction_task(..) returned Ok
AssignOk(s) ==
    /\ pc[s] = "assign"
    /\ pc' = [pc EXCEPT ![s] = AfterAssignOk]
    /\ work' = [work EXCEPT !.acted = TRUE, !.oks = @ + 1,
                            !.unpaced = FALSE]
    /\ UNCHANGED <<chanVars, rxVars, compaction_group, compact_task,
                   compactor, tsVars, shutdown_closed, shutdown_queue,
                   registry, registered, entered, older, fatal>>

\* lines 194-207: assign_compaction_task(..) returned Err(err)
AssignErr(s, err) ==
    /\ pc[s] = "assign"
    /\ err \in AssignErrors
    /\ pc' = [pc EXCEPT ![s] =
                 IF IsFatal(err) THEN "remove" ELSE "next_compactor"]
    /\ compactor' = [compactor EXCEPT ![s] =
                        IF IsFatal(err) THEN @ ELSE NoCompactor]
    /\ work' = [work EXCEPT !.acted = TRUE, !.failed = TRUE,
                            !.unpaced = FALSE]
    /\ fatal' = IF err \in {"InvalidContext", "CompactorUnreachable"}
                THEN fatal \cup {compactor[s]} ELSE fatal
    /\ UNCHANGED <<chanVars, rxVars, compaction_group, compact_task,
                   tsVars, shutdown_closed, shutdown_queue, registry,
                   registered, entered, older>>

\* a removal that leaves the compactor registered
Removed_Nothing(set, c) == set

\* a removal that empties the registry
Removed_Everything(set, c) == {}

\* line 203: compactor_manager.remove_compactor(compactor.context_id())
Removed(set, c) == set \ {c}

\* lines 202-203 and 207: remove_compactor(context_id); continue 'send_task
RemoveCompactor(s) ==
    /\ pc[s] = "remove"
    /\ registry' = Removed(registry, compactor[s])
    /\ compactor' = [compactor EXCEPT ![s] = NoCompactor]
    /\ pc' = [pc EXCEPT ![s] = "next_compactor"]
    /\ UNCHANGED <<chanVars, rxVars, compaction_group, compact_task,
                   tsVars, shutdown_closed, shutdown_queue, registered,
                   histVars>>

\* line 186: try_send(compaction_group) up to the send; a call that
\* returns false goes straight on to break 'send_task
Reschedule(s) ==
    /\ pc[s] = "resched"
    /\ TrySendBegin(s, compaction_group[s])
    /\ IF ts_pc'[s] = "insert"
       THEN UNCHANGED <<pc, compaction_group, compact_task, compactor>>
       ELSE /\ pc' = [pc EXCEPT ![s] = "select"]
            /\ compaction_group' = [compaction_group EXCEPT ![s] = NoGroup]
            /\ compact_task' = [compact_task EXCEPT ![s] = NoTask]
            /\ compactor' = [compactor EXCEPT ![s] = NoCompactor]
    /\ work' = [work EXCEPT !.resends = @ + 1]
    /\ UNCHANGED <<rxVars, shutdown_closed, shutdown_queue, registry,
                   registered, entered, fatal>>

\* lines 186-192: the insert of that try_send; break 'send_task
RescheduleInsert(s) ==
    /\ pc[s] = "resched"
    /\ TrySendEnd(s)
    /\ pc' = [pc EXCEPT ![s] = "select"]
    /\ compaction_group' = [compaction_group EXCEPT ![s] = NoGroup]
    /\ compact_task' = [compact_task EXCEPT ![s] = NoTask]
    /\ compactor' = [compactor EXCEPT ![s] = NoCompactor]
    /\ UNCHANGED <<rxVars, shutdown_closed, shutdown_queue, registry,
                   registered, entered, workVars>>

\* ------------------------------------------------------- specification
ProducerStep ==
    \E p \in Producers :
        \/ \E g \in Groups : ProducerTrySend(p, g)
        \/ ProducerTrySendInsert(p)

StartStep(s) ==
    \/ StartTakeShutdown(s)
    \/ StartTakeRequest(s)
    \/ StartMatchBoth(s)
    \/ StartMatchOther(s)
    \/ Register(s)

LoopStep(s) ==
    \/ RecvRequest(s)
    \/ RecvShutdown(s)
    \/ Exit(s)
    \/ Unschedule(s)
    \/ \E t \in Tasks : GetCompactTask(s, t)
    \/ \E r \in {"empty", "error"} : GetCompactTaskNothing(s, r)
    \/ \E c \in Compactors : NextCompactor(s, c)
    \/ NextCompactorNone(s)
    \/ Sleep(s)
    \/ AssignOk(s)
    \/ \E err \in AssignErrors : AssignErr(s, err)
    \/ RemoveCompactor(s)
    \/ Reschedule(s)
    \/ RescheduleInsert(s)

Next ==
    \/ ProducerStep
    \/ Shutdown
    \/ \E s \in Starters : StartStep(s)
    \/ \E s \in Starters : LoopStep(s)

Spec == Init /\ [][Next]_vars

\* What the runtime guarantees about scheduling: the task that runs
\* start() is polled again whenever it can make progress, a thread that
\* holds the `scheduled` mutex goes on to release it, the mutex is
\* eventually handed to a thread that keeps asking for it, and select!
\* (line 116, not `biased`) starts polling at a random branch, so a branch
\* that is ready again and again is eventually the one that completes.
\* Nothing is assumed about the collaborators called by pick_and_assign
\* or about the producers.
\* the steps of start() outside select and pick_and_assign's collaborators
LoopProgress ==
    \E s \in Starters :
        \/ Register(s)
        \/ Unschedule(s)
        \/ Reschedule(s)
        \/ RescheduleInsert(s)
        \/ Exit(s)

Fairness ==
    /\ SF_vars(LoopProgress)
    /\ SF_vars(\E s \in Starters : RecvRequest(s))
    /\ SF_vars(\E s \in Starters : RecvShutdown(s))
    /\ WF_vars(\E p \in Producers : ProducerTrySendInsert(p))

FairSpec == Spec /\ Fairness

TypeOK ==
    /\ scheduled \subseteq Groups
    /\ scheduled_lock \in Threads \cup {NoThread}
    /\ buffer \in Seq(Groups)
    /\ request_rx \in {"Some", "None"}
    /\ shutdown_rx \in {"Some", "None"}
    /\ shutdown_queue \in 0..MaxShutdownSignals
    /\ registry \subseteq Compactors

\* --------------------------------------------------------------- claims
\* a try_send(g) call by any thread: a producer's, or the loop's own at
\* line 186
TrySendCall(t, g) ==
    \/ t \in Producers /\ ProducerTrySend(t, g)
    \/ t \in Starters /\ compaction_group[t] = g /\ Reschedule(t)

\* the return of an accepted try_send call
TrySendReturn(t) ==
    \/ t \in Producers /\ ProducerTrySendInsert(t)
    \/ t \in Starters /\ RescheduleInsert(t)

\* the consumer has received g and not yet run unschedule(g)
Dequeued(g) ==
    \E s \in Starters : pc[s] = "unschedule" /\ compaction_group[s] = g

\* C1: the request buffer never holds more than one signal for a group.
C1_AtMostOnePending == \A g \in Groups : CountIn(buffer, g) <= 1

\* C1 witness: a duplicate try_send was turned away while the loop runs
\* and the group's one signal is queued.
C1_Witness ==
    /\ LoopRunning
    /\ ts_ret = "false"
    /\ \E g \in Groups : g \in scheduled /\ CountIn(buffer, g) = 1

\* C2: a try_send(g) made while g is in the pending set returns false and
\* changes neither the buffer nor the pending set, so no call made while
\* g is pending is accepted.
C2_DuplicateSuppressed ==
    [][\A t \in Threads : \A g \in Groups :
          (TrySendCall(t, g) /\ g \in scheduled)
              => /\ ts_ret' = "false"
                 /\ ts_pc'[t] = "idle"
                 /\ buffer' = buffer
                 /\ scheduled' = scheduled]_vars

\* C2 witness: a call was turned away while the first call's signal is
\* still queued.
C2_Witness ==
    /\ ts_ret = "false"
    /\ ~request_closed
    /\ \E g \in Groups : g \in scheduled /\ g \in Range(buffer)

\* C3 as stated: in every state a try_send(g) for a group that is not
\* pending queues one signal for g and goes on to insert g and return
\* true.
C3_AlwaysAccepted ==
    [][\A t \in Threads : \A g \in Groups :
          (TrySendCall(t, g) /\ g \notin scheduled)
              => /\ buffer' = Append(buffer, g)
                 /\ ts_pc'[t] = "insert"]_vars

\* C3 amended: while the request receiver has not been dropped, a
\* try_send(g) for a group that is not pending queues one signal for g,
\* inserts g and returns true; once the receiver has been dropped it
\* returns false and changes nothing.
C3_AcceptedWhileOpen ==
    [][\A t \in Threads : \A g \in Groups :
          /\ (TrySendCall(t, g) /\ g \notin scheduled /\ ~request_closed)
                => /\ buffer' = Append(buffer, g)
                   /\ ts_pc'[t] = "insert"
                   /\ ts_group'[t] = g
          /\ (TrySendCall(t, g) /\ g \notin scheduled /\ request_closed)
                => /\ ts_ret' = "false"
                   /\ ts_pc'[t] = "idle"
                   /\ buffer' = buffer
                   /\ scheduled' = scheduled
          /\ (TrySendReturn(t) /\ ts_group[t] = g)
                => /\ ts_ret' = "true"
                   /\ scheduled' = scheduled \cup {g}
                   /\ buffer' = buffer]_vars

\* C3 witness: a call was accepted and has returned true while the loop
\* runs.
C3_Witness ==
    /\ LoopRunning
    /\ ts_ret = "true"
    /\ scheduled # {}
    /\ buffer # <<>>

\* C6 as stated, observed whenever the pending set can be read (its
\* mutex is free): a group is pending iff a signal for it is queued.
C6_PendingIffQueued ==
    scheduled_lock = NoThread
        => \A g \in Groups : g \in scheduled <=> g \in Range(buffer)

\* C6 amended: whenever the mutex of the pending set is free, every group
\* with a queued signal is pending, and a pending group has a queued
\* signal unless the consumer has received its signal and not yet run
\* unschedule for it, or the request receiver has been dropped.
C6_PendingCoversQueued ==
    scheduled_lock = NoThread
        => \A g \in Groups :
              /\ g \in Range(buffer) => g \in scheduled
              /\ g \in scheduled
                    => g \in Range(buffer) \/ Dequeued(g) \/ request_closed

\* C6 witness: the consumer holds a received group that is still pending
\* and no longer queued.
C6_Witness ==
    /\ scheduled_lock = NoThread
    /\ \E g \in Groups :
          Dequeued(g) /\ g \in scheduled /\ g \notin Range(buffer)

\* C7: the consumer receives signals in the order they were sent: the
\* group it receives has no queued signal that was sent before its own.
C7_Fifo ==
    [][\A s \in Starters :
          RecvRequest(s)
              => ~ \E h \in Groups : <<h, compaction_group'[s]>> \in older]_vars

\* C7 witness: the consumer has received one group while a signal sent
\* after it is still queued.
C7_Witness ==
    /\ \E s \in Starters : pc[s] = "unschedule"
    /\ buffer # <<>>
    /\ older = {}

\* C8: at most one start() call runs the loop at any time, and at most
\* one ever enters it.
C8_SingleConsumer ==
    /\ Cardinality({s \in Starters : Running(s)}) <= 1
    /\ entered <= 1

\* C8 witness: one call runs the loop while another call is inside
\* start().
C8_Witness ==
    /\ LoopRunning
    /\ \E s \in Starters : pc[s] = "match"

\* C9: every start() call that gets past the match either is the one call
\* that enters the loop, or returns having taken neither receiver and
\* having left the request channel as it was.
C9_StartedOnce ==
    [][\A s \in Starters :
          /\ (StartMatchBoth(s) \/ StartMatchOther(s)) => entered' = 1
          /\ StartMatchOther(s)
                => /\ taken[s] = {}
                   /\ request_closed' = request_closed
                   /\ shutdown_closed' = shutdown_closed
                   /\ buffer' = buffer]_vars

\* C9 witness: a second call has found both receivers gone while the
\* first call runs the loop and the channel still takes signals.
C9_Witness ==
    /\ LoopRunning
    /\ entered = 1
    /\ ~request_closed
    /\ buffer # <<>>
    /\ \E s \in Starters : pc[s] = "match" /\ taken[s] = {}

\* the loop is between unschedule(g) and the end of g's assignment
InWindow(g) ==
    \E s \in Starters : pc[s] \in AssignPcs /\ compaction_group[s] = g

\* every assignment that is in flight completes
AssignmentsComplete == []<>(\A s \in Starters : pc[s] \notin AssignPcs)

\* shutdown has been signalled or the loop is no longer running
ShutDown == shutdown_queue > 0 \/ ~LoopRunning

\* C4 as stated: a try_send(g) called between unschedule(g) and the end of
\* g's assignment is accepted and returns true.
C4_WindowCallAccepted ==
    [][\A p \in Producers : \A g \in Groups :
          (ProducerTrySend(p, g) /\ InWindow(g)) => ts_pc'[p] = "insert"]_vars

\* C4 amended: a try_send(g) called between unschedule(g) and the end of
\* g's assignment is accepted and returns true unless g has already been
\* queued again since that unschedule, in which case it returns false; in
\* both cases a signal for g is queued after the call and, if the loop is
\* not shut down and the assignments in flight complete, the consumer
\* receives g again.
C4_WindowCallDelivered ==
    /\ [][\A p \in Producers : \A g \in Groups :
             (ProducerTrySend(p, g) /\ InWindow(g))
                 => /\ (ts_pc'[p] = "insert") <=> (g \notin scheduled)
                    /\ (ts_pc'[p] = "idle") => ts_ret' = "false"
                    /\ CountIn(buffer', g) = 1]_vars
    /\ AssignmentsComplete
          => \A g \in Groups :
                (InWindow(g) /\ g \in Range(buffer))
                    ~> (Dequeued(g) \/ ShutDown)

\* C4 witness: during g's assignment a producer's call for g was accepted
\* and has returned true, and g's new signal is queued.
C4_Witness ==
    \E g \in Groups :
        /\ InWindow(g)
        /\ g \in scheduled
        /\ g \in Range(buffer)
        /\ ts_ret = "true"
        /\ shutdown_queue = 0

\* the loop has run unschedule(g) and is about to begin the task fetch
AtFetch(g) ==
    \E s \in Starters : pc[s] = "get_task" /\ compaction_group[s] = g

\* C5: every try_send(g) that returns while the loop runs, whatever it
\* returns, leaves g pending, and a group that is pending while the loop
\* runs gets the start of a task fetch afterwards, if the loop is not shut
\* down and the assignments in flight complete.
C5_NoLostWakeup ==
    /\ [][\A t \in Threads : \A g \in Groups :
             /\ (TrySendCall(t, g) /\ ts_pc'[t] = "idle" /\ LoopRunning')
                   => g \in scheduled'
             /\ (TrySendReturn(t) /\ ts_group[t] = g) => g \in scheduled']_vars
    /\ AssignmentsComplete
          => \A g \in Groups :
                (LoopRunning /\ g \in scheduled) ~> (AtFetch(g) \/ ShutDown)

\* C5 witness: a call for g returned false while the consumer had received
\* g's signal and not yet run unschedule(g).
C5_Witness ==
    \E g \in Groups :
        /\ Dequeued(g)
        /\ g \in scheduled
        /\ g \notin Range(buffer)
        /\ ts_ret = "false"
        /\ scheduled_lock = NoThread
        /\ shutdown_queue = 0

\* the loop has been entered and left
Stopped == entered >= 1 /\ \A s \in Starters : ~Running(s)

\* C10: once shutdown is signalled to a running loop, the loop reaches
\* Stopped, also when the request buffer is never empty, if the
\* assignments in flight complete.
C10_ShutdownNotStarved ==
    AssignmentsComplete
        => ((LoopRunning /\ shutdown_queue > 0) ~> Stopped)

\* C10 witness: shutdown is signalled while the loop waits in select with
\* signals queued.
C10_Witness ==
    /\ \E s \in Starters : pc[s] = "select"
    /\ shutdown_queue > 0
    /\ buffer # <<>>

\* C11 as stated: once shutdown has been signalled, the loop exits at its
\* next wait point and receives no further signal, also when signals are
\* queued.
C11_NoReceiveAfterShutdown ==
    [][\A s \in Starters : RecvRequest(s) => shutdown_queue = 0]_vars

\* C11 amended: once shutdown has been signalled, the shutdown branch is
\* ready at every wait point the loop reaches, and the loop that completes
\* it exits without receiving a signal and never receives one afterwards;
\* while signals are queued the request branch may complete instead, and
\* only with an empty buffer is the exit the one way out of the wait.
C11_ShutdownBranchReady ==
    /\ [](\A s \in Starters :
             (pc[s] = "select" /\ shutdown_queue > 0)
                 => ENABLED RecvShutdown(s))
    /\ [][\A s \in Starters :
             /\ RecvShutdown(s) => (pc'[s] = "exit" /\ buffer' = buffer)
             /\ pc[s] = "exit" => pc'[s] \in {"exit", "idle"}
             /\ (pc[s] = "select" /\ shutdown_queue > 0 /\ buffer = <<>>
                    /\ pc'[s] # "select") => pc'[s] = "exit"
             /\ (RecvRequest(s) /\ shutdown_queue > 0) => buffer # <<>>]_vars

\* C11 witness: the loop has left the wait through the shutdown branch
\* while a signal is still queued.
C11_Witness ==
    /\ \E s \in Starters : pc[s] = "exit"
    /\ buffer # <<>>
    /\ shutdown_queue = 0

\* C12: with shutdown signalled, the retry loop of an assignment stops at
\* its next checkpoint: the top of 'send_task does not go on to another
\* selection attempt, backoff or assign.
C12_RetryLoopObservesShutdown ==
    [][\A s \in Starters :
          (pc[s] = "next_compactor" /\ shutdown_queue > 0)
              => pc'[s] \notin {"sleep", "assign"}]_vars

\* the loop leaves Running in this step
LeavesRunning(s) == Running(s) /\ ~Running(s)'

\* C13: the loop leaves Running only by receiving the shutdown signal; a
\* fetch that fails or finds no task, an empty registry and every assign
\* error leave it Running.
C13_OnlyShutdownStops ==
    [][\A s \in Starters :
          /\ LeavesRunning(s) => RecvShutdown(s)
          /\ (\/ \E r \in {"empty", "error"} : GetCompactTaskNothing(s, r)
              \/ NextCompactorNone(s)
              \/ \E err \in AssignErrors : AssignErr(s, err))
                => Running(s)']_vars

\* C13 witness: the loop is back at its wait after a fetch that failed,
\* and it is Running.
C13_Witness ==
    \E s \in Starters :
        /\ pc[s] = "select"
        /\ work.fetch = "error"
        /\ Running(s)

InRetryLoop(s) == pc[s] \in {"next_compactor", "sleep", "assign", "remove"}

\* pick_and_assign returns in this step after a successful assign
ReturnsAssigned(s) == pc[s] = "resched" /\ pc'[s] = "select"

\* C15: for a delivered signal whose fetch gave a task, failed attempts
\* followed by a success make exactly one successful assign, after which
\* the retry loop is left and try_send(G) is called exactly once; when the
\* assignment returns G is pending with exactly one signal queued.
C15_OneAssignOneReschedule ==
    /\ [](/\ work.oks <= 1
          /\ work.resends <= work.oks
          /\ \A s \in Starters : InRetryLoop(s) => work.oks = 0)
    /\ [][\A s \in Starters :
             ReturnsAssigned(s)
                 => /\ work'.oks = 1
                    /\ work'.resends = 1
                    /\ compaction_group[s] \in scheduled'
                    /\ CountIn(buffer', compaction_group[s]) = 1]_vars

\* C15 witness: an assignment has returned after a failed attempt, one
\* success and one try_send, and a signal is queued.
C15_Witness ==
    /\ \E s \in Starters : pc[s] = "select"
    /\ work.failed
    /\ work.oks = 1
    /\ work.resends = 1
    /\ buffer # <<>>
    /\ scheduled # {}

\* a selection attempt: a call of next_compactor()
Selects(s) == NextCompactorNone(s) \/ \E c \in Compactors : NextCompactor(s, c)

\* C16: a selection that finds no compactor is followed by the backoff
\* wait, and no selection attempt is made while the one before it in the
\* same assignment has been followed by neither a backoff wait nor an
\* assign call.
C16_BackoffBetweenSelections ==
    [][\A s \in Starters :
          /\ Selects(s) => ~work.unpaced
          /\ NextCompactorNone(s) => pc'[s] = "sleep"]_vars

\* C16 witness: the registry is empty, a selection has found none and the
\* loop is in its backoff wait.
C16_Witness ==
    \E s \in Starters :
        /\ pc[s] = "sleep"
        /\ registry = {}
        /\ work.unpaced

\* C17: the loop reaches the task fetch for a delivered signal G only
\* through unschedule(G), which leaves G unmarked; while it fetches and
\* assigns for G, a mark on G belongs to a newer signal that is queued,
\* never to the signal it has consumed.
C17_UnscheduleBeforeFetch ==
    /\ [](\A s \in Starters :
             (pc[s] \in AssignPcs /\ scheduled_lock = NoThread
                 /\ compaction_group[s] \in scheduled)
                 => compaction_group[s] \in Range(buffer))
    /\ [][\A s \in Starters :
             (pc'[s] = "get_task" /\ pc[s] # "get_task")
                 => /\ Unschedule(s)
                    /\ compaction_group[s] \notin scheduled'
                    /\ work.fetches = 0]_vars

\* C17 witness: the loop is about to fetch for G, whose accepted try_send
\* has returned, and G is not marked.
C17_Witness ==
    \E s \in Starters :
        /\ pc[s] = "get_task"
        /\ compaction_group[s] \notin scheduled
        /\ compaction_group[s] \notin Range(buffer)
        /\ ts_ret = "true"
        /\ work.fetches = 0

\* C18: each delivered signal gets exactly one task fetch; when it gives
\* no task or fails, pick_and_assign returns at once: no selection, no
\* assign, no removal and no try_send is made for that signal, and nothing
\* is fetched again before the next signal is received.
C18_OneFetchPerSignal ==
    /\ [](/\ work.fetches <= 1
          /\ (work.fetch # "none") <=> (work.fetches = 1)
          /\ work.fetch \in {"empty", "error"}
                => (~work.acted /\ ~work.failed /\ work.oks = 0
                       /\ work.resends = 0))
    /\ [][\A s \in Starters :
             /\ (\E r \in {"empty", "error"} : GetCompactTaskNothing(s, r))
                   => /\ pc'[s] = "select"
                      /\ UNCHANGED <<registry, fatal, buffer, scheduled>>
             /\ (RecvRequest(s) /\ work # WorkNone) => work.fetches = 1]_vars

\* C18 witness: the fetch for the signal received last gave no task and
\* the loop is back at its wait without having done anything else.
C18_Witness ==
    \E s \in Starters :
        /\ pc[s] = "select"
        /\ work.fetch = "empty"
        /\ work.fetches = 1
        /\ ~work.acted
        /\ registry = Compactors

\* C19: an assign error other than InvalidContext and CompactorUnreachable
\* leaves the registry as it is, does not enqueue the group again, and
\* takes the retry loop back to the selection with the same task.
C19_OtherErrorKeepsWorker ==
    [][\A s \in Starters :
          AssignErr(s, "Other")
              => /\ pc'[s] = "next_compactor"
                 /\ compact_task'[s] = compact_task[s]
                 /\ compact_task[s] # NoTask
                 /\ work'.resends = work.resends
                 /\ UNCHANGED <<registry, fatal, buffer, scheduled>>]_vars

\* C19 witness: an assign has failed with another error; the loop is back
\* at the selection with its task and every compactor is still registered.
C19_Witness ==
    \E s \in Starters :
        /\ pc[s] = "next_compactor"
        /\ work.failed
        /\ fatal = {}
        /\ registry = Compactors
        /\ compact_task[s] # NoTask

\* the loop has received a signal and has not yet returned from its
\* pick_and_assign
InFlight(s) == pc[s] \in AssignPcs \cup {"unschedule", "resched"}

\* C20: at most one signal is being processed at any time; the loop
\* receives a signal only when the pick_and_assign before it has returned,
\* with its one fetch made and, if it fetched a task, the task assigned;
\* meanwhile a producer's try_send for another, unmarked group is accepted.
C20_OneAtATime ==
    /\ [](Cardinality({s \in Starters : InFlight(s)}) <= 1)
    /\ [][\A s \in Starters :
             /\ RecvRequest(s)
                   => /\ \A r \in Starters : ~InFlight(r)
                      /\ work.fetch = "task"
                            => (work.oks = 1 /\ work.resends = 1)
             /\ \A p \in Producers : \A g \in Groups :
                   (/\ ProducerTrySend(p, g)
                    /\ InFlight(s)
                    /\ g # compaction_group[s]
                    /\ g \notin scheduled)
                       => (ts_pc'[p] = "insert" /\ g \in Range(buffer'))]_vars

\* C20 witness: while the loop is between unschedule and the end of an
\* assignment, a producer's try_send for another group has been accepted
\* and is about to return.
C20_Witness ==
    \E s \in Starters : \E p \in Producers :
        /\ pc[s] \in AssignPcs \ {"get_task"}
        /\ ts_pc[p] = "insert"
        /\ ts_group[p] # compaction_group[s]
        /\ ts_group[p] \in Range(buffer)

\* C21: once the fetch has given a task, the retry loop is left only by a
\* successful assign; every step up to the return of pick_and_assign keeps
\* the task as it was fetched, and pick_and_assign returns with exactly
\* that success made.  No empty registry and no assign error ends it.
C21_TaskNeverDropped ==
    /\ [](\A s \in Starters :
             (InRetryLoop(s) \/ pc[s] = "resched")
                 => (compact_task[s] \in Tasks /\ work.fetch = "task"))
    /\ [][\A s \in Starters :
             /\ (InRetryLoop(s) /\ ~InRetryLoop(s)')
                   => (AssignOk(s) /\ pc'[s] = "resched")
             /\ ((InRetryLoop(s) \/ pc[s] = "resched") /\ pc'[s] # "select")
                   => compact_task'[s] = compact_task[s]
             /\ (pc[s] # "select" /\ pc'[s] = "select"
                    /\ work'.fetch = "task") => work'.oks = 1]_vars

\* C21 witness: after a failed attempt the assign of the fetched task has
\* succeeded and pick_and_assign is about to reschedule and return.
C21_Witness ==
    \E s \in Starters :
        /\ pc[s] = "resched"
        /\ ts_pc[s] = "idle"
        /\ work.failed
        /\ work.oks = 1
        /\ compact_task[s] \in Tasks

\* C22: set_compaction_scheduler is called only by a start() call that got
\* both receivers, after it has entered and before it waits for its first
\* signal; a start() call that returns at the warning does not register.
C22_RegisteredOnEntering ==
    /\ [](/\ registered => entered >= 1
          /\ \A s \in Starters :
                /\ pc[s] \in LoopPcs \cup {"exit"} => registered
                /\ (pc[s] = "register" /\ entered = 1) => ~registered)
    /\ [][\A s \in Starters :
             /\ registered' # registered
                   => \E r \in Starters :
                         /\ Register(r)
                         /\ taken[r] = {"shutdown", "request"}
             /\ StartMatchOther(s) => registered' = registered
             /\ RecvRequest(s) => registered]_vars

\* C22 witness: the loop is registered and waits for its first signal,
\* which is queued, while another start() call has found no receiver.
C22_Witness ==
    /\ registered
    /\ \E s \in Starters :
          pc[s] = "select" /\ work = WorkNone /\ buffer # <<>>
    /\ \E r \in Starters : pc[r] = "match" /\ taken[r] = {}

\* C23: once the loop has been entered and left, it stays left: no start()
\* call enters it again, no signal is received, nothing is fetched or
\* assigned and the registry is not touched, whatever is called later.
C23_StoppedIsTerminal ==
    [][Stopped
          => /\ Stopped'
             /\ work' = work
             /\ registry' = registry
             /\ entered' = entered
             /\ \A s \in Starters : ~InFlight(s)']_vars

\* C23 witness: the loop stopped before it received any signal; after
\* that a try_send has failed and a start() call has found no receiver.
C23_Witness ==
    /\ Stopped
    /\ request_closed
    /\ work = WorkNone
    /\ scheduled = {}
    /\ ts_ret = "false"
    /\ \E r \in Starters : pc[r] = "match" /\ taken[r] = {}

\* C24: once the request receiver has been dropped, a try_send(g) for an
\* unmarked group returns false and changes neither the pending set nor
\* the buffer, and no group ever leaves the pending set.
C24_RejectedWhenReceiverGone ==
    [][/\ \A t \in Threads : \A g \in Groups :
             (TrySendCall(t, g) /\ request_closed /\ g \notin scheduled)
                 => /\ ts_ret' = "false"
                    /\ ts_pc'[t] = "idle"
                    /\ scheduled' = scheduled
                    /\ buffer' = buffer
       /\ request_closed
             => (request_closed' /\ scheduled \subseteq scheduled'
                    /\ buffer' = <<>>)]_vars

\* C24 witness: the receiver is gone, a group is still marked, and a
\* try_send has returned false while another group is unmarked.
C24_Witness ==
    /\ request_closed
    /\ scheduled # {}
    /\ scheduled # Groups
    /\ ts_ret = "false"
    /\ \A t \in Threads : ts_pc[t] = "idle"

\* C25: whenever the running loop waits with an empty buffer, either it
\* has received no signal yet or the fetch for the signal it received last
\* gave no task or failed; after a successful assignment a signal for the
\* group is queued when the loop is back at its wait.
C25_IdleOnlyWhenExhausted ==
    /\ [](\A s \in Starters :
             (pc[s] = "select" /\ buffer = <<>>)
                 => work.fetch \in {"none", "empty", "error"})
    /\ [][\A s \in Starters :
             (pc[s] # "select" /\ pc'[s] = "select" /\ work'.oks >= 1)
                 => compaction_group[s] \in Range(buffer')]_vars

\* C25 witness: the loop waits with nothing queued and nothing marked
\* after a fetch that gave no task, and no shutdown is signalled.
C25_Witness ==
    \E s \in Starters :
        /\ pc[s] = "select"
        /\ buffer = <<>>
        /\ scheduled = {}
        /\ work.fetch = "empty"
        /\ shutdown_queue = 0

=============================================================================
